---- MODULE Spec2Model ----
(***************************************************************************)
(* mcwho: the log tailing goroutine (Mcwho / readLog / getLogReader), the  *)
(* consumer loop of main and the two presence tables, modelled from        *)
(* src/unnamed/part_000 (the current version of the program).              *)
(* The earlier versions (src/unnamed/part_001, src/mcwho.go), the HTTP     *)
(* handler and the shutdown have sections and specifications of their own. *)
(*                                                                         *)
(* A log file is a sequence of units.  A login line is                     *)
(*     head(tod, name)  loginMark  nl                                      *)
(* where head stands for "[tod] [thread/INFO]: name", loginMark for        *)
(* "[/ip] logged in with entity id" and nl for the rest of the line with   *)
(* its newline; a logout line has logoutMark ( " lost connection:" ) in    *)
(* place of loginMark.  A unit is the grain at which a writer's bytes can  *)
(* be split across two read passes.                                        *)
(***************************************************************************)
EXTENDS Integers, Sequences, FiniteSets, TLC

VARIABLES
    usersOn,      \* map name -> mcuser, the online table
    usersOff,     \* map name -> mcuser, the offline table
    mainpc,       \* main: "select" (in the for/select loop) or "fatal" (in log.Fatal)
    exited,       \* the process has exited
    exitCause,    \* "" | "errch" (main's log.Fatal) | "watch" (setupWatcher's log.Fatal)
    conch,        \* channel of logins: the values sent and not yet received
    disch,        \* channel of logouts
    errch,        \* channel of errors
    conchClosed,  \* close(conch) has run (Mcwho's deferred call)
    pc,           \* Mcwho's position
    files,        \* Mcwho: the directory listing returned by ReadDir
    idx,          \* Mcwho: index of the next entry of files
    rd,           \* readLog's frame: the file read, the reader's offset, err, date
    pos,          \* the package variable pos
    liveFile,     \* content of latest.log
    wpend,        \* the units of the line the server is writing, not yet written
    nlines,       \* lines the server has started to write
    ntrunc,       \* times latest.log was truncated
    evPending,    \* watcher.Event has a notification ready
    dir,          \* the archives in the log directory
    extracted,    \* history: the events readLog extracted, in order
    applied,      \* history: the events main applied to the tables, in order
    opened,       \* history: the archives readLog opened, in order, and how far each was read
    liveStarted,  \* history: readLog has opened latest.log
    now,          \* the clock when the display is rendered
    display,      \* the string getDisplay returned to rssServer, <<>> before the first request
    legacy,       \* the earlier version's readLog: its offset in server.log, err, the events sent
    liveMod,      \* the day latest.log was last modified
    cut,          \* history: since latest.log was last replaced by an empty file, a pass
                  \* was cut short: it read a line without its end, or its os.Stat failed
    mainUser,     \* main's variable user: the value last received from conch or disch
    oldUsersOn    \* the first version's Mcwho: its map oldUsersOn

vars == <<usersOn, usersOff, mainpc, exited, exitCause, conch, disch, errch,
          conchClosed, pc, files, idx, rd, pos, liveFile, wpend, nlines,
          ntrunc, evPending, dir, extracted, applied, opened, liveStarted,
          now, display, legacy, liveMod, cut, mainUser, oldUsersOn>>

----------------------------------------------------------------------------
(* Bounds of the model *)

\* lines the server appends to latest.log in one run
MaxLive == 1
\* truncations of latest.log in one run
MaxTrunc == 1
\* the day of the run
Today == 3

(* Program constants *)

\* seconds in a day: the range of a time of day that time.Parse accepts
DayLen == 86400
\* the zero time.Time that time.Parse returns with an error
ZeroTime == 0

Users == {"alice", "bob"}

----------------------------------------------------------------------------
(* Log lines *)

LineHead(tod, name) == [u |-> "head", tod |-> tod, name |-> name]
LoginMark == [u |-> "login", tod |-> 0, name |-> ""]
LogoutMark == [u |-> "logout", tod |-> 0, name |-> ""]
NoiseUnit == [u |-> "noise", tod |-> 0, name |-> ""]
NL == [u |-> "nl", tod |-> 0, name |-> ""]

LoginLine(tod, name) == <<LineHead(tod, name), LoginMark, NL>>
LogoutLine(tod, name) == <<LineHead(tod, name), LogoutMark, NL>>
NoiseLine == <<NoiseUnit, NL>>

\* 43275 is 12:01:15; 90000 is a token such as 25:00:00, which [0-9:]+ matches
\* and time.Parse rejects
LiveLines ==
    { LoginLine(43275, "alice"), LogoutLine(43300, "alice"),
      LogoutLine(90000, "bob") }

\* what latest.log holds when the program starts, if the server wrote to
\* it last on the day before the run
OldLines == LoginLine(43275, "alice")

\* logonre: anchored at the start of the line, open at its end
logonre(line) == Len(line) >= 2 /\ line[1].u = "head" /\ line[2].u = "login"

\* logoutre
logoutre(line) == Len(line) >= 2 /\ line[1].u = "head" /\ line[2].u = "logout"

\* An instant is a number of seconds on the UTC scale.  Local time is US
\* Eastern: the abbreviation in force on a date, summer time having begun
\* the day before the run,
ZoneOn(date) == IF date >= Today - 1 THEN "EDT" ELSE "EST"

\* and the offset from UTC that an abbreviation stands for
UTCOffset(abbr) == IF abbr = "EDT" THEN -14400 ELSE -18000

\* time.Now().Zone(): the abbreviation in force when the program runs
zone == ZoneOn(Today)

\* parseSince: time.Parse of "<date> <tod> <zone>" gives the instant at
\* which a clock at zone's offset shows date and tod, or the zero time and
\* an error
parseSince(date, tod) ==
    IF tod >= 0 /\ tod < DayLen
    THEN [ts |-> date * DayLen + tod - UTCOffset(zone), err |-> FALSE]
    ELSE [ts |-> ZeroTime, err |-> TRUE]

mcuser(name, since) == [name |-> name, since |-> since]

\* make(userList)
EmptyList == [n \in {} |-> mcuser("", ZeroTime)]

\* delete(m, name)
Delete(m, name) == [n \in DOMAIN m \ {name} |-> m[n]]

\* m[name] = user
Put(m, name, user) == [n \in DOMAIN m \cup {name} |-> IF n = name THEN user ELSE m[n]]

----------------------------------------------------------------------------
(* The log directory *)

Archive(date, n) == [gz |-> TRUE, date |-> date, n |-> n]
Latest == [gz |-> FALSE, date |-> 0, n |-> 0]

\* 2014-03-0<date>-<n>.log.gz for a few days and numbers
ArchiveNames == { Archive(1, 2), Archive(1, 10), Archive(2, 1) }

\* what each archive holds
ArchiveContent(a) ==
    IF a = Archive(1, 2) THEN LoginLine(43275, "alice") \o NoiseLine
    ELSE IF a = Archive(1, 10) THEN LogoutLine(43300, "alice") \o LoginLine(43301, "bob")
    ELSE LogoutLine(100, "bob")

\* decimal digits of n < 100, as character codes
Dec(n) == IF n < 10 THEN <<48 + n>> ELSE <<48 + (n \div 10), 48 + (n % 10)>>

\* the part of a file name that distinguishes it, as character codes:
\* "<date>-<n>." for an archive, "l" for latest.log
NameChars(e) ==
    IF e.gz THEN <<48 + e.date, 45>> \o Dec(e.n) \o <<46>> ELSE <<108>>

\* byte-wise string order, as sort.Strings / ReadDir use it
StrLess(s, t) ==
    \E k \in 1..(Len(s) + 1) :
        /\ \A i \in 1..(k - 1) : i <= Len(t) /\ s[i] = t[i]
        /\ \/ (k = Len(s) + 1 /\ Len(t) >= k)
           \/ (k <= Len(s) /\ k <= Len(t) /\ s[k] < t[k])

RECURSIVE SortByName(_)
SortByName(S) ==
    IF S = {} THEN <<>>
    ELSE LET m == CHOOSE x \in S : \A y \in S \ {x} : StrLess(NameChars(x), NameChars(y))
         IN <<m>> \o SortByName(S \ {m})

\* ioutil.ReadDir: the entries of the directory sorted by file name
ReadDir == SortByName(dir \cup {Latest})

----------------------------------------------------------------------------
(* Channels *)

\* a channel made with a buffer: a send completes at once
SendDoneBuffered(ch) == TRUE

\* a send on an unbuffered channel has completed when the value was received
SendDone(ch) == ch = <<>>

----------------------------------------------------------------------------
(* Reading *)

Content(src) == IF src.gz THEN ArchiveContent(src) ELSE liveFile

Min(S) == CHOOSE x \in S : \A y \in S : x <= y

\* bufio ReadString('\n') at offset off of content c: the line up to and
\* including the next newline, or what is left with io.EOF.  The content is
\* the file's content at the time of the call (the reader refills from the
\* file as it goes), and the offset returned is the file position reached.
ReadString(c, off) ==
    LET nls == { i \in (off + 1)..Len(c) : c[i].u = "nl" }
    IN IF off >= Len(c) THEN [line |-> <<>>, off |-> off, eof |-> TRUE]
       ELSE IF nls = {} THEN [line |-> SubSeq(c, off + 1, Len(c)), off |-> Len(c), eof |-> TRUE]
       ELSE [line |-> SubSeq(c, off + 1, Min(nls)), off |-> Min(nls), eof |-> FALSE]

----------------------------------------------------------------------------
(* The display *)

\* a piece of a string: the text s, or the number n printed by %d and
\* followed by s
Lit(s) == [s |-> s, n |-> -1]
Num(n, s) == [s |-> s, n |-> n]

\* the longest elapsed time rendered, in days
MaxDays == 2

\* Go's integer division and remainder, which truncate towards zero
Quot(a, b) == IF a >= 0 THEN a \div b ELSE -((-a) \div b)
Rem(a, b) == a - b * Quot(a, b)

\* a getHowLong that prints the seconds after the other units too
getHowLongWithSecs(ts, tnow) ==
    LET dur == tnow - ts
        days == dur \div DayLen
        hours == (dur \div 3600) % 24
        mins == (dur \div 60) % 60
    IN (IF days > 0 THEN <<Num(days, "d ")>> ELSE <<>>)
       \o (IF hours > 0 THEN <<Num(hours, "h ")>> ELSE <<>>)
       \o (IF mins > 0 THEN <<Num(mins, "m")>> ELSE <<>>)
       \o <<Num(dur % 60, "s")>>

\* getHowLong at time tnow.  time.Now().Sub(ts) saturates at the largest
\* Duration (about 292 years) for the zero time, which prints as
\* 106751d 23h 47m.
getHowLong(ts, tnow) ==
    IF ts = ZeroTime THEN <<Num(106751, "d "), Num(23, "h "), Num(47, "m")>>
    ELSE LET dur == tnow - ts
             days == Quot(Quot(dur, 3600), 24)
             hours == Rem(Quot(dur, 3600), 24)
             mins == Rem(Quot(dur, 60), 60)
             secs == Rem(dur, 60)
             str == (IF days > 0 THEN <<Num(days, "d ")>> ELSE <<>>)
                    \o (IF hours > 0 THEN <<Num(hours, "h ")>> ELSE <<>>)
                    \o (IF mins > 0 THEN <<Num(mins, "m")>> ELSE <<>>)
         IN IF Len(str) = 0 THEN <<Num(secs, "s")>> ELSE str

\* strings.Join
RECURSIVE Join(_, _)
Join(strs, sep) ==
    IF Len(strs) = 0 THEN <<>>
    ELSE IF Len(strs) = 1 THEN strs[1]
    ELSE strs[1] \o <<sep>> \o Join(Tail(strs), sep)

\* the orders in which a range loop can visit the keys S of a map
Orders(S) ==
    { o \in [1..Cardinality(S) -> S] : \A i, j \in DOMAIN o : o[i] = o[j] => i = j }

\* the loop over usersOff of getDisplay, visiting the keys in order ord
RECURSIVE lastUser(_, _, _)
lastUser(off, ord, last) ==
    IF Len(ord) = 0 THEN last
    ELSE lastUser(off, Tail(ord),
                  IF off[ord[1]].since > last.since THEN off[ord[1]] ELSE last)

\* a getDisplay whose header is "<N> players: " for one player too
getDisplayPlural(on, off, onOrd, offOrd, tnow) ==
    LET userInfo == [i \in 1..Len(onOrd) |->
                        <<Lit(on[onOrd[i]].name), Lit(" on for ")>>
                        \o getHowLong(on[onOrd[i]].since, tnow)]
    IN <<Num(Len(onOrd), " players: ")>> \o Join(userInfo, Lit(", "))

\* getDisplay at time tnow, the range loops visiting the online users in
\* order onOrd and the offline users in order offOrd
getDisplay(on, off, onOrd, offOrd, tnow) ==
    LET userInfo == [i \in 1..Len(onOrd) |->
                        <<Lit(on[onOrd[i]].name), Lit(" on for ")>>
                        \o getHowLong(on[onOrd[i]].since, tnow)]
        count == Len(onOrd)
        last == lastUser(off, offOrd, mcuser("", ZeroTime))
        hdr == IF count < 1
               THEN IF last.since = ZeroTime
                    THEN <<Lit("No players for "), Lit("ever"), Lit(" ("),
                           Lit("nobody"), Lit(")")>>
                    ELSE <<Lit("No players for ")>> \o getHowLong(last.since, tnow)
                         \o <<Lit(" ("), Lit(last.name), Lit(")")>>
               ELSE IF count = 1 THEN <<Lit("1 player: ")>>
               ELSE <<Num(count, " players: ")>>
    IN hdr \o Join(userInfo, Lit(", "))

\* the clock when the display is rendered: the end of the day of the run
RenderTimes == { parseSince(Today, DayLen - 1).ts }

----------------------------------------------------------------------------
(* The state of the program *)

\* no call of readLog is active; size, was, start: the file size and the
\* value of pos that getLogReader saw and the offset it seeked to (plain
\* file), kept for the length of the call
NoRd == [active |-> FALSE, src |-> Latest, off |-> 0, err |-> FALSE, date |-> 0,
         size |-> 0, was |-> 0, start |-> 0]

\* the earlier version's readLog has not read anything
NoLegacy == [off |-> 0, err |-> FALSE, sent |-> <<>>]

Init ==
    /\ usersOn = EmptyList /\ usersOff = EmptyList
    /\ mainpc = "select" /\ exited = FALSE /\ exitCause = ""
    /\ conch = <<>> /\ disch = <<>> /\ errch = <<>> /\ conchClosed = FALSE
    /\ pc = "setup" /\ files = <<>> /\ idx = 1 /\ rd = NoRd /\ pos = 0
    /\ \/ liveFile = <<>> /\ liveMod = Today
       \/ liveFile = OldLines /\ liveMod = Today - 1 /\ dir = {}
    /\ wpend = <<>> /\ nlines = 0 /\ ntrunc = 0
    /\ evPending = FALSE
    /\ dir \in SUBSET ArchiveNames
    /\ extracted = <<>> /\ applied = <<>> /\ opened = <<>> /\ liveStarted = FALSE
    /\ now \in RenderTimes /\ display = <<>>
    /\ legacy = NoLegacy /\ cut = FALSE
    /\ mainUser = mcuser("", ZeroTime) /\ oldUsersOn = EmptyList

\* os.Exit (from log.Fatal): the process and all it held are gone; only the
\* cause of the exit is kept
Exit(cause) ==
    /\ exited' = TRUE /\ exitCause' = cause
    /\ usersOn' = EmptyList /\ usersOff' = EmptyList
    /\ conch' = <<>> /\ disch' = <<>> /\ errch' = <<>> /\ conchClosed' = FALSE
    /\ pc' = "gone" /\ files' = <<>> /\ idx' = 1 /\ rd' = NoRd /\ pos' = 0
    /\ liveFile' = <<>> /\ wpend' = <<>> /\ nlines' = 0 /\ ntrunc' = 0
    /\ evPending' = FALSE /\ dir' = {}
    /\ extracted' = <<>> /\ applied' = <<>> /\ opened' = <<>> /\ liveStarted' = FALSE
    /\ liveMod' = Today /\ cut' = FALSE
    /\ mainUser' = mcuser("", ZeroTime) /\ oldUsersOn' = EmptyList

----------------------------------------------------------------------------
(* Mcwho, the tailing goroutine *)

\* setupWatcher: on failure it calls log.Fatal itself and always returns a
\* nil error, so the caller's "errch <- err" is never reached
setupWatcher ==
    /\ ~exited /\ pc = "setup"
    /\ \/ /\ pc' = "readdir"
          /\ UNCHANGED <<usersOn, usersOff, exited, exitCause, conch, disch,
                         errch, conchClosed, files, idx, rd, pos, liveFile,
                         wpend, nlines, ntrunc, evPending, dir, extracted,
                         applied, opened, liveStarted, liveMod, cut, mainUser, oldUsersOn>>
       \/ Exit("watch")
    /\ UNCHANGED mainpc
    /\ UNCHANGED <<now, display, legacy>>

\* ioutil.ReadDir(logPath), or its error sent on errch
McwhoReadDir ==
    /\ ~exited /\ pc = "readdir"
    /\ \/ /\ files' = ReadDir /\ idx' = 1 /\ pc' = "files"
          /\ UNCHANGED errch
       \/ /\ errch' = Append(errch, "readdir") /\ pc' = "errret"
          /\ UNCHANGED <<files, idx>>
    /\ UNCHANGED <<usersOn, usersOff, mainpc, exited, exitCause, conch, disch,
                   conchClosed, rd, pos, liveFile, wpend, nlines, ntrunc,
                   evPending, dir, extracted, applied, opened, liveStarted>>
    /\ UNCHANGED <<now, display, legacy, liveMod, cut, mainUser, oldUsersOn>>

\* for i := range files: an entry whose extension is not .gz is skipped
McwhoSkipFile ==
    /\ ~exited /\ pc = "files" /\ idx <= Len(files) /\ ~files[idx].gz
    /\ idx' = idx + 1
    /\ UNCHANGED <<usersOn, usersOff, mainpc, exited, exitCause, conch, disch,
                   errch, conchClosed, pc, files, rd, pos, liveFile, wpend,
                   nlines, ntrunc, evPending, dir, extracted, applied, opened,
                   liveStarted>>
    /\ UNCHANGED <<now, display, legacy, liveMod, cut, mainUser, oldUsersOn>>

\* the modification date of latest.log: the server writes to it today
\* the date readLog injects: the date in the file name, else the file's
\* modification date, else (Stat failed) today's date
resolveDate(src, statOk) ==
    IF src.gz THEN src.date ELSE IF statOk THEN liveMod ELSE Today

\* readLog(archive) up to its loop: os.Open and gzip.NewReader, either of
\* which may fail; the error goes to errch and Mcwho returns
McwhoOpenArchive ==
    /\ ~exited /\ pc = "files" /\ idx <= Len(files) /\ files[idx].gz
    /\ \/ /\ rd' = [active |-> TRUE, src |-> files[idx], off |-> 0, err |-> FALSE,
                    date |-> resolveDate(files[idx], TRUE), size |-> 0, was |-> 0,
                    start |-> 0]
          /\ opened' = Append(opened, [file |-> files[idx], afterLive |-> liveStarted,
                                     upto |-> 0])
          /\ pc' = "reading"
          /\ UNCHANGED errch
       \/ /\ errch' = Append(errch, "archive") /\ pc' = "errret"
          /\ UNCHANGED <<rd, opened>>
    /\ UNCHANGED <<usersOn, usersOff, mainpc, exited, exitCause, conch, disch,
                   conchClosed, files, idx, pos, liveFile, wpend, nlines,
                   ntrunc, evPending, dir, extracted, applied, liveStarted>>
    /\ UNCHANGED <<now, display, legacy, liveMod, cut, mainUser, oldUsersOn>>

\* getLogReader without the shrink test
StartOffsetNoReset(size, p) == p

\* a getLogReader that starts at the end of the file, as tail -f does
StartOffsetAtEnd(size, p) == size

\* getLogReader for a plain file: where the pass starts, given the size seen
StartOffset(size, p) == IF size < p THEN 0 ELSE p

\* readLog(latest.log) up to its loop: os.Open, then getLogReader's Stat, the
\* shrink test and the Seek, then the date; a failed os.Stat in the date
\* step leaves err set, so the loop is not entered
McwhoOpenLive ==
    /\ ~exited
    /\ pc = "live" \/ (pc = "files" /\ idx > Len(files))
    /\ \/ \E statOk \in BOOLEAN :
            LET start == StartOffset(Len(liveFile), pos) IN
            /\ pos' = start
            /\ rd' = [active |-> TRUE, src |-> Latest, off |-> start,
                      err |-> ~statOk, date |-> resolveDate(Latest, statOk),
                      size |-> Len(liveFile), was |-> pos, start |-> start]
            /\ liveStarted' = TRUE
            /\ pc' = "reading"
            /\ cut' = (cut \/ (ntrunc > 0 /\ ~statOk))
            /\ UNCHANGED errch
       \/ /\ errch' = Append(errch, "open") /\ pc' = "errret"
          /\ UNCHANGED <<rd, pos, liveStarted, cut>>
    /\ UNCHANGED <<usersOn, usersOff, mainpc, exited, exitCause, conch, disch,
                   conchClosed, files, idx, liveFile, wpend, nlines, ntrunc,
                   evPending, dir, extracted, applied, opened>>
    /\ UNCHANGED <<now, display, legacy, liveMod, mainUser, oldUsersOn>>

\* one turn of readLog's loop: ReadString, the two patterns, parseSince (its
\* error dropped) and the send
readLogLine ==
    /\ ~exited /\ pc = "reading" /\ ~rd.err
    /\ SendDone(conch) /\ SendDone(disch)
    /\ LET r == ReadString(Content(rd.src), rd.off)
           line == r.line
       IN /\ rd' = [rd EXCEPT !.off = r.off, !.err = r.eof]
          /\ IF logonre(line)
             THEN LET since == parseSince(rd.date, line[1].tod) IN
                  /\ conch' = Append(conch, mcuser(line[1].name, since.ts))
                  /\ extracted' = Append(extracted,
                         [kind |-> "login", user |-> mcuser(line[1].name, since.ts),
                          src |-> rd.src, off |-> r.off, perr |-> since.err,
                          date |-> rd.date, tod |-> line[1].tod, gen |-> ntrunc])
                  /\ UNCHANGED disch
             ELSE IF logoutre(line)
             THEN LET since == parseSince(rd.date, line[1].tod) IN
                  /\ disch' = Append(disch, mcuser(line[1].name, since.ts))
                  /\ extracted' = Append(extracted,
                         [kind |-> "logout", user |-> mcuser(line[1].name, since.ts),
                          src |-> rd.src, off |-> r.off, perr |-> since.err,
                          date |-> rd.date, tod |-> line[1].tod, gen |-> ntrunc])
                  /\ UNCHANGED conch
             ELSE UNCHANGED <<conch, disch, extracted>>
    /\ UNCHANGED <<usersOn, usersOff, mainpc, exited, exitCause, errch,
                   conchClosed, pc, files, idx, pos, liveFile, wpend, nlines,
                   ntrunc, evPending, dir, applied, opened, liveStarted>>
    /\ cut' = \/ cut
               \/ /\ ntrunc > 0 /\ ~rd.src.gz
                  /\ ReadString(Content(rd.src), rd.off).eof
                  /\ Len(ReadString(Content(rd.src), rd.off).line) > 0
    /\ UNCHANGED <<now, display, legacy, liveMod, mainUser, oldUsersOn>>

\* a readLog that stores the position reached in an archive too
readLogReturnAnyFile ==
    /\ ~exited /\ pc = "reading" /\ rd.err
    /\ SendDone(conch) /\ SendDone(disch)
    /\ pos' = rd.off
    /\ rd' = NoRd
    /\ IF rd.src.gz
       THEN /\ pc' = "files" /\ idx' = idx + 1
            /\ opened' = [opened EXCEPT ![Len(opened)].upto = rd.off]
       ELSE /\ pc' = "wait"
            /\ UNCHANGED <<idx, opened>>
    /\ UNCHANGED <<usersOn, usersOff, mainpc, exited, exitCause, conch, disch,
                   errch, conchClosed, files, liveFile, wpend, nlines, ntrunc,
                   evPending, dir, extracted, applied, liveStarted>>
    /\ UNCHANGED <<now, display, legacy, liveMod, cut, mainUser, oldUsersOn>>

\* the end of readLog: err = nil, pos = the file position for a plain file;
\* back in Mcwho, the next archive or the select on the watcher
readLogReturn ==
    /\ ~exited /\ pc = "reading" /\ rd.err
    /\ SendDone(conch) /\ SendDone(disch)
    /\ pos' = IF rd.src.gz THEN pos ELSE rd.off
    /\ rd' = NoRd
    /\ IF rd.src.gz
       THEN /\ pc' = "files" /\ idx' = idx + 1
            /\ opened' = [opened EXCEPT ![Len(opened)].upto = rd.off]
       ELSE /\ pc' = "wait"
            /\ UNCHANGED <<idx, opened>>
    /\ UNCHANGED <<usersOn, usersOff, mainpc, exited, exitCause, conch, disch,
                   errch, conchClosed, files, liveFile, wpend, nlines, ntrunc,
                   evPending, dir, extracted, applied, liveStarted>>
    /\ UNCHANGED <<now, display, legacy, liveMod, cut, mainUser, oldUsersOn>>

\* a loop that lists and reads the directory again on every notification
McwhoWaitEventRescan ==
    /\ ~exited /\ pc = "wait" /\ evPending
    /\ evPending' = FALSE /\ pc' = "files" /\ idx' = 1
    /\ UNCHANGED <<usersOn, usersOff, mainpc, exited, exitCause, conch, disch,
                   errch, conchClosed, files, rd, pos, liveFile, wpend,
                   nlines, ntrunc, dir, extracted, applied, opened, liveStarted>>
    /\ UNCHANGED <<now, display, legacy, liveMod, cut, mainUser, oldUsersOn>>

\* case <-watcher.Event: loop again
McwhoWaitEvent ==
    /\ ~exited /\ pc = "wait" /\ evPending
    /\ evPending' = FALSE /\ pc' = "live"
    /\ UNCHANGED <<usersOn, usersOff, mainpc, exited, exitCause, conch, disch,
                   errch, conchClosed, files, idx, rd, pos, liveFile, wpend,
                   nlines, ntrunc, dir, extracted, applied, opened, liveStarted>>
    /\ UNCHANGED <<now, display, legacy, liveMod, cut, mainUser, oldUsersOn>>

\* case err := <-watcher.Error: errch <- err
McwhoWaitError ==
    /\ ~exited /\ pc = "wait"
    /\ errch' = Append(errch, "watcher") /\ pc' = "errbreak"
    /\ UNCHANGED <<usersOn, usersOff, mainpc, exited, exitCause, conch, disch,
                   conchClosed, files, idx, rd, pos, liveFile, wpend, nlines,
                   ntrunc, evPending, dir, extracted, applied, opened, liveStarted>>
    /\ UNCHANGED <<now, display, legacy, liveMod, cut, mainUser, oldUsersOn>>

\* the break after "errch <- err" leaves the select, not the for loop
McwhoBreak ==
    /\ ~exited /\ pc = "errbreak" /\ SendDone(errch)
    /\ pc' = "live"
    /\ UNCHANGED <<usersOn, usersOff, mainpc, exited, exitCause, conch, disch,
                   errch, conchClosed, files, idx, rd, pos, liveFile, wpend,
                   nlines, ntrunc, evPending, dir, extracted, applied, opened,
                   liveStarted>>
    /\ UNCHANGED <<now, display, legacy, liveMod, cut, mainUser, oldUsersOn>>

\* a return that does not wait for main to take the error, as with a
\* buffered errch
McwhoReturnNoWait ==
    /\ ~exited /\ pc = "errret"
    /\ pc' = "done" /\ conchClosed' = TRUE
    /\ UNCHANGED <<usersOn, usersOff, mainpc, exited, exitCause, conch, disch,
                   errch, files, idx, rd, pos, liveFile, wpend, nlines, ntrunc,
                   evPending, dir, extracted, applied, opened, liveStarted>>
    /\ UNCHANGED <<now, display, legacy, liveMod, cut, mainUser, oldUsersOn>>

\* the return after "errch <- err", and the deferred close(conch)
McwhoReturn ==
    /\ ~exited /\ pc = "errret" /\ SendDone(errch)
    /\ pc' = "done" /\ conchClosed' = TRUE
    /\ UNCHANGED <<usersOn, usersOff, mainpc, exited, exitCause, conch, disch,
                   errch, files, idx, rd, pos, liveFile, wpend, nlines, ntrunc,
                   evPending, dir, extracted, applied, opened, liveStarted>>
    /\ UNCHANGED <<now, display, legacy, liveMod, cut, mainUser, oldUsersOn>>

----------------------------------------------------------------------------
(* main, the consumer *)

\* a login that leaves the offline record in place
LoginKeepsOffline(user) ==
    /\ usersOff' = usersOff
    /\ usersOn' = Put(usersOn, user.name, user)

\* a logout that leaves the online record in place
LogoutKeepsOnline(user) ==
    /\ usersOn' = usersOn
    /\ usersOff' = Put(usersOff, user.name, user)

\* a login that keeps the record of a user who is online already
LoginKeepsFirst(user) ==
    /\ usersOff' = Delete(usersOff, user.name)
    /\ usersOn' = IF user.name \in DOMAIN usersOn THEN usersOn
                  ELSE Put(usersOn, user.name, user)

\* a logout that ignores a user who is not online
LogoutOnlyIfOnline(user) ==
    IF user.name \in DOMAIN usersOn
    THEN /\ usersOn' = Delete(usersOn, user.name)
         /\ usersOff' = Put(usersOff, user.name, user)
    ELSE UNCHANGED <<usersOn, usersOff>>

\* case user = <-conch
Login(user) ==
    /\ usersOff' = Delete(usersOff, user.name)
    /\ usersOn' = Put(usersOn, user.name, user)

\* case user = <-disch
Logout(user) ==
    /\ usersOn' = Delete(usersOn, user.name)
    /\ usersOff' = Put(usersOff, user.name, user)

\* <-conch is ready when a sender waits or the channel is closed
CanRecvConch == conch # <<>> \/ conchClosed

\* the value of <-conch: what the sender sends, or the zero mcuser once
\* the channel is closed
RecvConch == IF conch # <<>> THEN conch[1] ELSE mcuser("", ZeroTime)

MainRecvConch ==
    /\ ~exited /\ mainpc = "select" /\ CanRecvConch
    /\ Login(RecvConch)
    /\ conch' = (IF conch # <<>> THEN Tail(conch) ELSE conch)
    /\ applied' = Append(applied, [kind |-> "login", user |-> RecvConch])
    /\ UNCHANGED <<mainpc, exited, exitCause, disch, errch, conchClosed, pc,
                   files, idx, rd, pos, liveFile, wpend, nlines, ntrunc,
                   evPending, dir, extracted, opened, liveStarted>>
    /\ mainUser' = RecvConch
    /\ UNCHANGED <<now, display, legacy, liveMod, cut, oldUsersOn>>

MainRecvDisch ==
    /\ ~exited /\ mainpc = "select" /\ disch # <<>>
    /\ Logout(disch[1])
    /\ disch' = Tail(disch)
    /\ applied' = Append(applied, [kind |-> "logout", user |-> disch[1]])
    /\ UNCHANGED <<mainpc, exited, exitCause, conch, errch, conchClosed, pc,
                   files, idx, rd, pos, liveFile, wpend, nlines, ntrunc,
                   evPending, dir, extracted, opened, liveStarted>>
    /\ mainUser' = disch[1]
    /\ UNCHANGED <<now, display, legacy, liveMod, cut, oldUsersOn>>

\* case err := <-errch: log.Fatal(err) begins
MainRecvErr ==
    /\ ~exited /\ mainpc = "select" /\ errch # <<>>
    /\ errch' = Tail(errch)
    /\ mainpc' = "fatal"
    /\ UNCHANGED <<usersOn, usersOff, exited, exitCause, conch, disch,
                   conchClosed, pc, files, idx, rd, pos, liveFile, wpend,
                   nlines, ntrunc, evPending, dir, extracted, applied, opened,
                   liveStarted>>
    /\ UNCHANGED <<now, display, legacy, liveMod, cut, mainUser, oldUsersOn>>

\* log.Fatal's os.Exit(1)
MainExit ==
    /\ ~exited /\ mainpc = "fatal"
    /\ Exit("errch")
    /\ UNCHANGED mainpc
    /\ UNCHANGED <<now, display, legacy>>

----------------------------------------------------------------------------
(* The game server and the file system *)

\* the server writes the next unit of a line to latest.log; the watcher,
\* once set up, notifies
Append1 ==
    /\ ~exited /\ mainpc = "select"
    /\ \/ /\ wpend # <<>>
          /\ liveFile' = Append(liveFile, wpend[1])
          /\ wpend' = Tail(wpend)
          /\ UNCHANGED nlines
       \/ /\ wpend = <<>> /\ nlines < MaxLive
          /\ \E l \in LiveLines :
                /\ liveFile' = Append(liveFile, l[1])
                /\ wpend' = Tail(l)
          /\ nlines' = nlines + 1
    /\ evPending' = (evPending \/ pc # "setup")
    /\ UNCHANGED <<usersOn, usersOff, mainpc, exited, exitCause, conch, disch,
                   errch, conchClosed, pc, files, idx, rd, pos, ntrunc, dir,
                   extracted, applied, opened, liveStarted>>
    /\ liveMod' = Today
    /\ UNCHANGED <<now, display, legacy, cut, mainUser, oldUsersOn>>

\* latest.log is truncated, or rotated: replaced under its name by a new,
\* empty file; the watcher, once set up, notifies
Truncate ==
    /\ ~exited /\ mainpc = "select" /\ ntrunc < MaxTrunc /\ liveFile # <<>>
    /\ liveFile' = <<>>
    /\ ntrunc' = ntrunc + 1
    /\ evPending' = (evPending \/ pc # "setup")
    /\ UNCHANGED <<usersOn, usersOff, mainpc, exited, exitCause, conch, disch,
                   errch, conchClosed, pc, files, idx, rd, pos, wpend, nlines,
                   dir, extracted, applied, opened, liveStarted>>
    /\ liveMod' = Today
    /\ cut' = FALSE
    /\ UNCHANGED <<now, display, legacy, mainUser, oldUsersOn>>

Next ==
    \/ setupWatcher \/ McwhoReadDir \/ McwhoSkipFile \/ McwhoOpenArchive
    \/ McwhoOpenLive \/ readLogLine \/ readLogReturn
    \/ McwhoWaitEvent \/ McwhoWaitError \/ McwhoBreak \/ McwhoReturn
    \/ MainRecvConch \/ MainRecvDisch \/ MainRecvErr \/ MainExit
    \/ Append1 \/ Truncate

Spec == Init /\ [][Next]_vars

----------------------------------------------------------------------------
(* getDisplay on its own: the tables and the clock are drawn from bounded *)
(* sets and rssServer renders them                                        *)

\* the since values of the records: the zero time and two parsed instants
Sinces == { ZeroTime, parseSince(1, 43275).ts, parseSince(2, 100).ts }

\* elapsed times since the later instant
Elapsed ==
    { d * DayLen + h * 3600 + mi * 60 + s :
        d \in 0..MaxDays, h \in {0, 2, 3, 23}, mi \in {0, 2, 3, 5, 59}, s \in {0, 5, 45} }

RenderNows == { parseSince(2, 100).ts + e : e \in Elapsed }

\* where a user is: in no table, or in one of them with a since
Places == {<<"none", ZeroTime>>} \cup ({"on", "off"} \X Sinces)

InitRender ==
    /\ \E f \in [Users -> Places] :
          /\ usersOn = [n \in { u \in Users : f[u][1] = "on" } |-> mcuser(n, f[n][2])]
          /\ usersOff = [n \in { u \in Users : f[u][1] = "off" } |-> mcuser(n, f[n][2])]
    /\ mainpc = "select" /\ exited = FALSE /\ exitCause = ""
    /\ conch = <<>> /\ disch = <<>> /\ errch = <<>> /\ conchClosed = FALSE
    /\ pc = "wait" /\ files = <<>> /\ idx = 1 /\ rd = NoRd /\ pos = 0
    /\ liveFile = <<>> /\ wpend = <<>> /\ nlines = 0 /\ ntrunc = 0
    /\ evPending = FALSE /\ dir = {}
    /\ extracted = <<>> /\ applied = <<>> /\ opened = <<>> /\ liveStarted = TRUE
    /\ now \in RenderNows /\ display = <<>>
    /\ legacy = NoLegacy /\ liveMod = Today /\ cut = FALSE
    /\ mainUser = mcuser("", ZeroTime) /\ oldUsersOn = EmptyList

\* the HTTP handler: display := getDisplay(usersOn, usersOff); each range
\* loop visits the keys of its map in an order the language leaves open
rssServer ==
    /\ ~exited
    /\ \E onOrd \in Orders(DOMAIN usersOn) : \E offOrd \in Orders(DOMAIN usersOff) :
          display' = getDisplay(usersOn, usersOff, onOrd, offOrd, now)
    /\ UNCHANGED <<usersOn, usersOff, mainpc, exited, exitCause, conch, disch,
                   errch, conchClosed, pc, files, idx, rd, pos, liveFile, wpend,
                   nlines, ntrunc, evPending, dir, extracted, applied, opened,
                   liveStarted, now, legacy, liveMod, cut, mainUser, oldUsersOn>>

NextRender == rssServer

SpecRender == InitRender /\ [][NextRender]_vars

----------------------------------------------------------------------------
(* The earlier version of the program (src/unnamed/part_001) reads        *)
(* server.log, whose lines start with the full date and time:             *)
(* "2014-03-01 12:01:15 [INFO] name[/ip] logged in ...".  Here it reads    *)
(* the lines of the one archive of the directory in that format, next to  *)
(* the current version reading the archive.                               *)

\* "<date> <tod> [INFO] name"
LegacyHead(date, tod, name) == [u |-> "lhead", date |-> date, tod |-> tod, name |-> name]

\* the lines of archive a as server.log would hold them
LegacyContent(a) ==
    [i \in DOMAIN ArchiveContent(a) |->
        IF ArchiveContent(a)[i].u = "head"
        THEN LegacyHead(a.date, ArchiveContent(a)[i].tod, ArchiveContent(a)[i].name)
        ELSE ArchiveContent(a)[i]]

ServerLog == LegacyContent(CHOOSE a \in dir : TRUE)

\* logonre and logoutre of the earlier version
logonreLegacy(line) == Len(line) >= 2 /\ line[1].u = "lhead" /\ line[2].u = "login"
logoutreLegacy(line) == Len(line) >= 2 /\ line[1].u = "lhead" /\ line[2].u = "logout"

\* a parse of matches[1] without the zone, which time.Parse reads as UTC
legacySinceUTC(head) ==
    IF head.tod >= 0 /\ head.tod < DayLen
    THEN [ts |-> head.date * DayLen + head.tod, err |-> FALSE]
    ELSE [ts |-> ZeroTime, err |-> TRUE]

\* parseSince(matches[1]): the date and time of the line, the zone appended
legacySince(head) == parseSince(head.date, head.tod)

InitLegacy == Init /\ Cardinality(dir) = 1

\* one turn of the earlier readLog's loop
readLogLegacy ==
    /\ ~exited /\ ~legacy.err
    /\ LET r == ReadString(ServerLog, legacy.off)
           line == r.line
           ev == IF logonreLegacy(line)
                 THEN <<[kind |-> "login",
                         user |-> mcuser(line[1].name, legacySince(line[1]).ts)]>>
                 ELSE IF logoutreLegacy(line)
                 THEN <<[kind |-> "logout",
                         user |-> mcuser(line[1].name, legacySince(line[1]).ts)]>>
                 ELSE <<>>
       IN legacy' = [off |-> r.off, err |-> r.eof, sent |-> legacy.sent \o ev]
    /\ UNCHANGED <<usersOn, usersOff, mainpc, exited, exitCause, conch, disch,
                   errch, conchClosed, pc, files, idx, rd, pos, liveFile, wpend,
                   nlines, ntrunc, evPending, dir, extracted, applied, opened,
                   liveStarted, now, display, liveMod, cut, mainUser, oldUsersOn>>

NextLegacy ==
    \/ setupWatcher \/ McwhoReadDir \/ McwhoSkipFile \/ McwhoOpenArchive
    \/ readLogLine \/ readLogReturn \/ MainRecvConch \/ MainRecvDisch
    \/ readLogLegacy

SpecLegacy == InitLegacy /\ [][NextLegacy]_vars

----------------------------------------------------------------------------
(* main and the HTTP goroutine side by side.  The two statements of a     *)
(* case of main's select are steps of their own, and rssServer, which     *)
(* reads the two maps without a lock ("@@TODO: Lock these, or copy them   *)
(* to the rss goroutine"), can run between them.  The log is the archives *)
(* of the directory.                                                      *)

InitConcurrent == Init /\ liveFile = <<>>

\* case user = <-conch: the receive
MainCaseConch ==
    /\ ~exited /\ mainpc = "select" /\ CanRecvConch
    /\ mainUser' = RecvConch /\ conch' = (IF conch # <<>> THEN Tail(conch) ELSE conch)
    /\ mainpc' = "conchDelete"
    /\ UNCHANGED <<usersOn, usersOff, exited, exitCause, disch, errch,
                   conchClosed, pc, files, idx, rd, pos, liveFile, wpend,
                   nlines, ntrunc, evPending, dir, extracted, applied, opened,
                   liveStarted, now, display, legacy, liveMod, cut, oldUsersOn>>

\* delete(usersOff, user.name)
MainLoginDelete ==
    /\ ~exited /\ mainpc = "conchDelete"
    /\ usersOff' = Delete(usersOff, mainUser.name)
    /\ mainpc' = "conchPut"
    /\ UNCHANGED <<usersOn, exited, exitCause, conch, disch, errch,
                   conchClosed, pc, files, idx, rd, pos, liveFile, wpend,
                   nlines, ntrunc, evPending, dir, extracted, applied, opened,
                   liveStarted, now, display, legacy, liveMod, cut, mainUser, oldUsersOn>>

\* usersOn[user.name] = user, and back to the select
MainLoginPut ==
    /\ ~exited /\ mainpc = "conchPut"
    /\ usersOn' = Put(usersOn, mainUser.name, mainUser)
    /\ mainpc' = "select"
    /\ applied' = Append(applied, [kind |-> "login", user |-> mainUser])
    /\ UNCHANGED <<usersOff, exited, exitCause, conch, disch, errch,
                   conchClosed, pc, files, idx, rd, pos, liveFile, wpend,
                   nlines, ntrunc, evPending, dir, extracted, opened,
                   liveStarted, now, display, legacy, liveMod, cut, mainUser, oldUsersOn>>

\* case user = <-disch: the receive
MainCaseDisch ==
    /\ ~exited /\ mainpc = "select" /\ disch # <<>>
    /\ mainUser' = disch[1] /\ disch' = Tail(disch)
    /\ mainpc' = "dischDelete"
    /\ UNCHANGED <<usersOn, usersOff, exited, exitCause, conch, errch,
                   conchClosed, pc, files, idx, rd, pos, liveFile, wpend,
                   nlines, ntrunc, evPending, dir, extracted, applied, opened,
                   liveStarted, now, display, legacy, liveMod, cut, oldUsersOn>>

\* delete(usersOn, user.name)
MainLogoutDelete ==
    /\ ~exited /\ mainpc = "dischDelete"
    /\ usersOn' = Delete(usersOn, mainUser.name)
    /\ mainpc' = "dischPut"
    /\ UNCHANGED <<usersOff, exited, exitCause, conch, disch, errch,
                   conchClosed, pc, files, idx, rd, pos, liveFile, wpend,
                   nlines, ntrunc, evPending, dir, extracted, applied, opened,
                   liveStarted, now, display, legacy, liveMod, cut, mainUser, oldUsersOn>>

\* usersOff[user.name] = user, and back to the select
MainLogoutPut ==
    /\ ~exited /\ mainpc = "dischPut"
    /\ usersOff' = Put(usersOff, mainUser.name, mainUser)
    /\ mainpc' = "select"
    /\ applied' = Append(applied, [kind |-> "logout", user |-> mainUser])
    /\ UNCHANGED <<usersOn, exited, exitCause, conch, disch, errch,
                   conchClosed, pc, files, idx, rd, pos, liveFile, wpend,
                   nlines, ntrunc, evPending, dir, extracted, opened,
                   liveStarted, now, display, legacy, liveMod, cut, mainUser, oldUsersOn>>

\* main is in a statement that writes a map
MainWrites == mainpc \in {"conchDelete", "conchPut", "dischDelete", "dischPut"}

\* a map read by getDisplay while main writes a map is a data race; a
\* runtime that detects it stops the process ("fatal error: concurrent map
\* read and map write"), another lets rssServer read what is there
rssServerThrow ==
    /\ ~exited /\ MainWrites
    /\ Exit("maprace")
    /\ UNCHANGED <<mainpc, now, display, legacy>>

NextConcurrent ==
    \/ setupWatcher \/ McwhoReadDir \/ McwhoSkipFile \/ McwhoOpenArchive
    \/ readLogLine \/ readLogReturn
    \/ MainCaseConch \/ MainLoginDelete \/ MainLoginPut
    \/ MainCaseDisch \/ MainLogoutDelete \/ MainLogoutPut
    \/ rssServer \/ rssServerThrow

SpecConcurrent == InitConcurrent /\ [][NextConcurrent]_vars

----------------------------------------------------------------------------
(* The ways the program shuts down, the server writing nothing: main,     *)
(* once in log.Fatal, runs on to os.Exit                                  *)

NextShutdown ==
    \/ setupWatcher \/ McwhoReadDir \/ McwhoSkipFile \/ McwhoOpenArchive
    \/ McwhoOpenLive \/ readLogLine \/ readLogReturn
    \/ McwhoWaitError \/ McwhoBreak \/ McwhoReturn
    \/ MainRecvConch \/ MainRecvDisch \/ MainRecvErr \/ MainExit

SpecShutdown == Init /\ [][NextShutdown]_vars /\ WF_vars(MainExit)

----------------------------------------------------------------------------
(* The first version of the program (src/mcwho.go).  It watches           *)
(* server.log alone.  readLog returns the map of the users logged on in   *)
(* the part of the file it has read, Mcwho sends each of them on conch    *)
(* and keeps them in oldUsersOn, and sends on disch every user of         *)
(* oldUsersOn who is not in that map.  main keeps one table, users, held  *)
(* here by the variable usersOn, and liveFile is server.log.  The server  *)
(* writes a line with one write.                                          *)

\* lines the server appends to server.log in one run
MaxServerLines == 3

\* the lines the server writes
FirstLines ==
    { <<LegacyHead(Today, 43275, "alice"), LoginMark, NL>>,
      <<LegacyHead(Today, 43301, "bob"), LoginMark, NL>>,
      <<LegacyHead(Today, 43400, "alice"), LogoutMark, NL>>,
      NoiseLine }

\* logonre and logoutre of the first version
logonreFirst(line) == Len(line) >= 2 /\ line[1].u = "lhead" /\ line[2].u = "login"
logoutreFirst(line) == Len(line) >= 2 /\ line[1].u = "lhead" /\ line[2].u = "logout"

\* matches[1], the date and time of a line as a string
SinceString(head) == [date |-> head.date, tod |-> head.tod]

\* the state once setupWatcher has returned
InitFirst ==
    /\ usersOn = EmptyList /\ usersOff = EmptyList
    /\ mainpc = "select" /\ exited = FALSE /\ exitCause = ""
    /\ conch = <<>> /\ disch = <<>> /\ errch = <<>> /\ conchClosed = FALSE
    /\ pc = "live" /\ files = <<>> /\ idx = 1 /\ rd = NoRd /\ pos = 0
    /\ liveFile = <<>> /\ liveMod = Today
    /\ wpend = <<>> /\ nlines = 0 /\ ntrunc = 0
    /\ evPending = FALSE /\ dir = {}
    /\ extracted = <<>> /\ applied = <<>> /\ opened = <<>> /\ liveStarted = FALSE
    /\ now \in RenderTimes /\ display = <<>>
    /\ legacy = NoLegacy /\ cut = FALSE
    /\ mainUser = mcuser("", ZeroTime) /\ oldUsersOn = EmptyList

\* what no step of the first version changes
FirstFrame ==
    UNCHANGED <<usersOff, exited, exitCause, conchClosed, files, idx, wpend,
                ntrunc, dir, extracted, opened, liveStarted, now, display,
                legacy, liveMod, cut, mainUser>>

\* readLog up to its loop: os.Open, Stat, the shrink test, the Seek and
\* usersOn = make(...); an error of Open or Stat goes to errch and Mcwho
\* returns
FirstReadLogOpen ==
    /\ ~exited /\ pc = "live"
    /\ \/ /\ pos' = StartOffset(Len(liveFile), pos)
          /\ rd' = [active |-> TRUE, src |-> Latest,
                    off |-> StartOffset(Len(liveFile), pos), err |-> FALSE,
                    usersOn |-> EmptyList, todo |-> {}]
          /\ pc' = "reading"
          /\ UNCHANGED errch
       \/ /\ errch' = Append(errch, "open") /\ pc' = "errret"
          /\ UNCHANGED <<rd, pos>>
    /\ UNCHANGED <<usersOn, mainpc, conch, disch, liveFile, nlines, evPending,
                   applied, oldUsersOn>>
    /\ FirstFrame

\* one turn of readLog's loop: a login line puts the user into usersOn, a
\* logout line deletes the user from it
FirstReadLogLine ==
    /\ ~exited /\ pc = "reading" /\ ~rd.err
    /\ LET r == ReadString(liveFile, rd.off)
           line == r.line
       IN rd' = [rd EXCEPT
                    !.off = r.off, !.err = r.eof,
                    !.usersOn =
                        IF logonreFirst(line)
                        THEN Put(rd.usersOn, line[1].name,
                                 mcuser(line[1].name, SinceString(line[1])))
                        ELSE IF logoutreFirst(line)
                        THEN Delete(rd.usersOn, line[1].name)
                        ELSE rd.usersOn]
    /\ UNCHANGED <<usersOn, mainpc, conch, disch, errch, pc, pos, liveFile,
                   nlines, evPending, applied, oldUsersOn>>
    /\ FirstFrame

\* the end of readLog: pos = the file position; back in Mcwho, the range
\* over usersOn begins
FirstReadLogReturn ==
    /\ ~exited /\ pc = "reading" /\ rd.err
    /\ pos' = rd.off
    /\ rd' = [rd EXCEPT !.active = FALSE, !.todo = DOMAIN rd.usersOn]
    /\ pc' = "rangeOn"
    /\ UNCHANGED <<usersOn, mainpc, conch, disch, errch, liveFile, nlines,
                   evPending, applied, oldUsersOn>>
    /\ FirstFrame

\* for _, user := range usersOn: conch <- user; oldUsersOn[user.name] = user,
\* the users visited in an order the language leaves open; after the last
\* one, the range over oldUsersOn begins
FirstRangeUsersOn ==
    /\ ~exited /\ pc = "rangeOn" /\ SendDone(conch)
    /\ \/ /\ rd.todo # {}
          /\ \E n \in rd.todo :
                /\ conch' = Append(conch, rd.usersOn[n])
                /\ oldUsersOn' = Put(oldUsersOn, n, rd.usersOn[n])
                /\ rd' = [rd EXCEPT !.todo = rd.todo \ {n}]
          /\ UNCHANGED pc
       \/ /\ rd.todo = {}
          /\ rd' = [rd EXCEPT !.todo = DOMAIN oldUsersOn]
          /\ pc' = "rangeOff"
          /\ UNCHANGED <<conch, oldUsersOn>>
    /\ UNCHANGED <<usersOn, mainpc, disch, errch, pos, liveFile, nlines,
                   evPending, applied>>
    /\ FirstFrame

\* for _, user := range oldUsersOn: a user who is not in usersOn is sent on
\* disch and deleted from oldUsersOn; after the last one, the select on the
\* watcher
FirstRangeOldUsersOn ==
    /\ ~exited /\ pc = "rangeOff" /\ SendDone(disch)
    /\ \/ /\ rd.todo # {}
          /\ \E n \in rd.todo :
                /\ rd' = [rd EXCEPT !.todo = rd.todo \ {n}]
                /\ IF n \notin DOMAIN rd.usersOn
                   THEN /\ disch' = Append(disch, oldUsersOn[n])
                        /\ oldUsersOn' = Delete(oldUsersOn, n)
                   ELSE UNCHANGED <<disch, oldUsersOn>>
          /\ UNCHANGED pc
       \/ /\ rd.todo = {}
          /\ rd' = NoRd
          /\ pc' = "wait"
          /\ UNCHANGED <<disch, oldUsersOn>>
    /\ UNCHANGED <<usersOn, mainpc, conch, errch, pos, liveFile, nlines,
                   evPending, applied>>
    /\ FirstFrame

\* case user := <-conch: users[user.name] = &user
FirstMainRecvConch ==
    /\ ~exited /\ mainpc = "select" /\ CanRecvConch
    /\ usersOn' = Put(usersOn, RecvConch.name, RecvConch)
    /\ conch' = (IF conch # <<>> THEN Tail(conch) ELSE conch)
    /\ applied' = Append(applied, [kind |-> "login", user |-> RecvConch])
    /\ UNCHANGED <<mainpc, disch, errch, pc, rd, pos, liveFile, nlines,
                   evPending, oldUsersOn>>
    /\ FirstFrame

\* case user := <-disch: delete(users, user.name)
FirstMainRecvDisch ==
    /\ ~exited /\ mainpc = "select" /\ disch # <<>>
    /\ usersOn' = Delete(usersOn, disch[1].name)
    /\ disch' = Tail(disch)
    /\ applied' = Append(applied, [kind |-> "logout", user |-> disch[1]])
    /\ UNCHANGED <<mainpc, conch, errch, pc, rd, pos, liveFile, nlines,
                   evPending, oldUsersOn>>
    /\ FirstFrame

\* the server appends a line to server.log and the watcher notifies
FirstAppendLine ==
    /\ ~exited /\ mainpc = "select" /\ nlines < MaxServerLines
    /\ \E l \in FirstLines : liveFile' = liveFile \o l
    /\ nlines' = nlines + 1
    /\ evPending' = TRUE
    /\ UNCHANGED <<usersOn, mainpc, conch, disch, errch, pc, rd, pos, applied,
                   oldUsersOn>>
    /\ FirstFrame

NextFirst ==
    \/ FirstReadLogOpen \/ FirstReadLogLine \/ FirstReadLogReturn
    \/ FirstRangeUsersOn \/ FirstRangeOldUsersOn
    \/ McwhoWaitEvent \/ McwhoWaitError \/ McwhoBreak \/ McwhoReturn
    \/ FirstMainRecvConch \/ FirstMainRecvDisch \/ MainRecvErr \/ MainExit
    \/ FirstAppendLine

SpecFirst == InitFirst /\ [][NextFirst]_vars

----------------------------------------------------------------------------
(* Definitions the properties use *)

Max(S) == CHOOSE x \in S : \A y \in S : x >= y

\* the indices of the events applied for user n
AppliedFor(n) == { i \in DOMAIN applied : applied[i].user.name = n }

\* the offsets at which a line of content c starts
LineStarts(c) == { i \in 1..Len(c) : i = 1 \/ c[i - 1].u = "nl" }

\* the complete login and logout lines of content c, by their start offsets
EventLines(c) ==
    { i \in LineStarts(c) :
        /\ i + 2 <= Len(c)
        /\ c[i].u = "head" /\ c[i + 1].u \in {"login", "logout"} /\ c[i + 2].u = "nl" }

\* the events extracted from source src, by their indices in extracted
ExtractedFrom(src) == { i \in DOMAIN extracted : extracted[i].src = src }

\* archive a is older than archive b
OlderArchive(a, b) == a.date < b.date \/ (a.date = b.date /\ a.n < b.n)

----------------------------------------------------------------------------
(* Properties *)

\* C1: after any sequence of Login and Logout events has been applied, no
\* user name is a key of both the online and the offline table.
C1_NeverInBothTables == DOMAIN usersOn \cap DOMAIN usersOff = {}

\* a user who logged in and then out again sits in the offline table alone,
\* and a user who logged out and then in again in the online table
C1_Witness ==
    /\ \E i, j \in DOMAIN applied :
          /\ i < j /\ applied[i].kind = "login" /\ applied[j].kind = "logout"
          /\ applied[i].user.name = applied[j].user.name
          /\ applied[j].user.name \in DOMAIN usersOff
    /\ \E i, j \in DOMAIN applied :
          /\ i < j /\ applied[i].kind = "logout" /\ applied[j].kind = "login"
          /\ applied[i].user.name = applied[j].user.name
          /\ applied[j].user.name \in DOMAIN usersOn

\* C2: main applies the events in exactly the order readLog extracted them,
\* though logins and logouts travel on two channels: the applied events are
\* a prefix of the extracted ones; and the extraction order is line order
\* within an archive and every archive event before any event of latest.log.
C2_AppliedInExtractionOrder ==
    /\ Len(applied) <= Len(extracted)
    /\ \A i \in DOMAIN applied :
          applied[i] = [kind |-> extracted[i].kind, user |-> extracted[i].user]
    /\ \A i, j \in DOMAIN extracted :
          i < j =>
            /\ ~(~extracted[i].src.gz /\ extracted[j].src.gz)
            /\ (extracted[i].src.gz /\ extracted[i].src = extracted[j].src)
                  => extracted[i].off < extracted[j].off

\* a logout and a login of one archive, then an event of latest.log, all applied
C2_Witness ==
    \E i, j, k \in DOMAIN applied :
        /\ i < j /\ j < k
        /\ extracted[i].src.gz /\ extracted[i].src = extracted[j].src
        /\ applied[i].kind = "logout" /\ applied[j].kind = "login"
        /\ ~extracted[k].src.gz

\* C3: the tables are the fold of the applied events: a user is online with
\* since = t iff the user's last event is a Login at t, offline with
\* since = t iff it is a Logout at t, and in neither table iff there was no
\* event for the user.
C3_TablesAreFold ==
    /\ (DOMAIN usersOn \cup DOMAIN usersOff) \subseteq Users
    /\ \A n \in Users :
          IF AppliedFor(n) = {}
          THEN n \notin DOMAIN usersOn /\ n \notin DOMAIN usersOff
          ELSE LET e == applied[Max(AppliedFor(n))] IN
               IF e.kind = "login"
               THEN n \in DOMAIN usersOn /\ usersOn[n] = e.user
                    /\ n \notin DOMAIN usersOff
               ELSE n \in DOMAIN usersOff /\ usersOff[n] = e.user
                    /\ n \notin DOMAIN usersOn

\* one user online after three events of which one had another time, the
\* other user offline
C3_Witness ==
    /\ DOMAIN usersOn # {} /\ DOMAIN usersOff # {}
    /\ \E n \in DOMAIN usersOn :
          /\ Cardinality(AppliedFor(n)) >= 3
          /\ \E i \in AppliedFor(n) : applied[i].user.since # usersOn[n].since

\* C4: a login or logout line appended to latest.log is emitted as exactly
\* one event, however its bytes are split across read passes, when the file
\* never shrinks: once Mcwho has read up to the end of the file and waits
\* with no notification pending, the events extracted from latest.log are as
\* many as its complete login and logout lines.
C4_EveryLineOneEvent ==
    ( /\ pc = "wait" /\ ~evPending /\ mainpc = "select"
      /\ ntrunc = 0 /\ wpend = <<>> /\ pos = Len(liveFile) )
    => Cardinality(ExtractedFrom(Latest)) = Cardinality(EventLines(liveFile))

\* C5: a read pass over latest.log starts at offset 0, with pos reset to 0,
\* if the size seen is smaller than pos, and at pos otherwise.
C5_PassStartsAtOffset ==
    (rd.active /\ ~rd.src.gz) =>
        /\ rd.start = (IF rd.size < rd.was THEN 0 ELSE rd.was)
        /\ pos = rd.start
        /\ rd.off >= rd.start

\* a pass that found the file shorter than a non-zero pos, and not empty
C5_Witness ==
    rd.active /\ ~rd.src.gz /\ rd.size < rd.was /\ rd.size > 0 /\ rd.start = 0

\* C6: a matched line whose timestamp fails to parse yields no event.
C6_NoEventOnParseError == \A i \in DOMAIN extracted : ~extracted[i].perr

\* C7: once an error was emitted on errch (main has received it), Mcwho
\* performs no further read pass.
C7_NoPassAfterError ==
    [][(mainpc = "fatal" /\ ~exited) => ~(~rd.active /\ rd'.active)]_vars

\* C8: the process never exits without an error having been sent on errch.
C8_ExitOnlyAfterErrch == exited => exitCause = "errch"

\* C9: archives are read oldest first: no archive is read before an older one.
C9_ArchivesOldestFirst ==
    \A i, j \in DOMAIN opened :
        i < j => ~OlderArchive(opened[j].file, opened[i].file)

\* C10: every archive is read at most once and never once latest.log has
\* been opened; and when latest.log is first opened every archive of the
\* directory has been read once, from offset 0 to its end, and every login
\* and logout line of it extracted.
C10_ArchivesOnceBeforeLive ==
    /\ \A i, j \in DOMAIN opened : opened[i].file = opened[j].file => i = j
    /\ \A i \in DOMAIN opened : ~opened[i].afterLive
    /\ liveStarted =>
          /\ { opened[i].file : i \in DOMAIN opened } = dir
          /\ \A i \in DOMAIN opened :
                /\ opened[i].upto = Len(ArchiveContent(opened[i].file))
                /\ Cardinality(ExtractedFrom(opened[i].file))
                      = Cardinality(EventLines(ArchiveContent(opened[i].file)))

\* three archives read, then a second pass over latest.log after a notification
C10_Witness ==
    /\ Len(opened) = 3 /\ liveStarted
    /\ rd.active /\ ~rd.src.gz /\ rd.was > 0
    /\ ExtractedFrom(Latest) # {}

\* main applies an event in this step
Applies(kind) ==
    /\ Len(applied') = Len(applied) + 1
    /\ applied'[Len(applied')].kind = kind

\* the records of every user but u are the same in both tables after the step
OthersUnchanged(u) ==
    \A n \in Users \ {u} :
        /\ (n \in DOMAIN usersOn') = (n \in DOMAIN usersOn)
        /\ (n \in DOMAIN usersOn) => usersOn'[n] = usersOn[n]
        /\ (n \in DOMAIN usersOff') = (n \in DOMAIN usersOff)
        /\ (n \in DOMAIN usersOff) => usersOff'[n] = usersOff[n]

\* C11: a Login of u at t2 applied when u's last event was a Login at t1
\* leaves exactly one online record of u, with since = t2, u absent from the
\* offline table, and every other user's record in both tables unchanged.
C11_RepeatedLoginOverwrites ==
    [][ ( /\ Applies("login")
          /\ AppliedFor(applied'[Len(applied')].user.name) # {}
          /\ applied[Max(AppliedFor(applied'[Len(applied')].user.name))].kind = "login" )
        => LET user == applied'[Len(applied')].user IN
           /\ { n \in DOMAIN usersOn' : usersOn'[n].name = user.name } = {user.name}
           /\ usersOn'[user.name].since = user.since
           /\ user.name \notin DOMAIN usersOff'
           /\ OthersUnchanged(user.name) ]_vars

\* two logins of one user at different times applied one after the other
\* while the other user has a record, the later login last
C11_Witness ==
    /\ applied # <<>>
    /\ LET e == applied[Len(applied)] IN
       /\ e.kind = "login"
       /\ AppliedFor(e.user.name) \ {Len(applied)} # {}
       /\ LET p == applied[Max(AppliedFor(e.user.name) \ {Len(applied)})] IN
             p.kind = "login" /\ p.user.since # e.user.since
       /\ usersOn[e.user.name].since = e.user.since
       /\ (DOMAIN usersOn \cup DOMAIN usersOff) \ {e.user.name} # {}

\* C12: a Logout of u at t applied when u has no record in either table
\* leaves offline[u] = {u, t}, the online table unchanged and every other
\* offline record unchanged.
C12_LogoutOfUnseenUser ==
    [][ ( /\ Applies("logout")
          /\ applied'[Len(applied')].user.name \notin DOMAIN usersOn \cup DOMAIN usersOff )
        => LET user == applied'[Len(applied')].user IN
           /\ user.name \in DOMAIN usersOff'
           /\ usersOff'[user.name] = mcuser(user.name, user.since)
           /\ usersOn' = usersOn
           /\ DOMAIN usersOff' = DOMAIN usersOff \cup {user.name}
           /\ OthersUnchanged(user.name) ]_vars

\* the first event of a user is a logout, applied last, while the other
\* user has a record
C12_Witness ==
    /\ applied # <<>>
    /\ LET e == applied[Len(applied)] IN
       /\ e.kind = "logout"
       /\ AppliedFor(e.user.name) = {Len(applied)}
       /\ e.user.name \in DOMAIN usersOff /\ usersOff[e.user.name] = e.user
       /\ (DOMAIN usersOn \cup DOMAIN usersOff) \ {e.user.name} # {}

\* the name and the time in the header of a display without players
HeaderName(d) == d[Len(d) - 1].s
HeaderHowLong(d) == SubSeq(d, 2, Len(d) - 3)

\* C13: when nobody is online the display says "ever" / "nobody" iff the
\* offline table is empty, and otherwise names an offline user whose since
\* is the latest, whatever the offline table holds.
C13_SentinelIffOfflineEmpty ==
    DOMAIN usersOn = {} =>
        \A ord \in Orders(DOMAIN usersOff) :
            LET d == getDisplay(usersOn, usersOff, <<>>, ord, now) IN
            /\ (HeaderName(d) = "nobody" \/ HeaderHowLong(d) = <<Lit("ever")>>)
                    <=> DOMAIN usersOff = {}
            /\ DOMAIN usersOff # {} =>
                    /\ HeaderName(d) \in DOMAIN usersOff
                    /\ \A n \in DOMAIN usersOff :
                          usersOff[n].since <= usersOff[HeaderName(d)].since

\* the pieces of string s between the separators sep
RECURSIVE Split(_, _)
Split(s, sep) ==
    LET seps == { i \in DOMAIN s : s[i] = sep } IN
    IF seps = {} THEN <<s>>
    ELSE <<SubSeq(s, 1, Min(seps) - 1)>> \o Split(SubSeq(s, Min(seps) + 1, Len(s)), sep)

\* the unit a piece of a duration stands for
Unit(tok) ==
    IF tok.s \in {"d", "d "} THEN "d" ELSE IF tok.s \in {"h", "h "} THEN "h"
    ELSE IF tok.s \in {"m", "m "} THEN "m" ELSE IF tok.s \in {"s", "s "} THEN "s"
    ELSE "?"

\* the entries of a display with players: what follows the header, split at ", "
Entries(d) == Split(Tail(d), Lit(", "))

Shown(dur) == [i \in DOMAIN dur |-> <<dur[i].n, Unit(dur[i])>>]

\* the components of s that are not zero
RECURSIVE NonZero(_)
NonZero(s) ==
    IF Len(s) = 0 THEN <<>>
    ELSE (IF s[1][1] # 0 THEN <<s[1]>> ELSE <<>>) \o NonZero(Tail(s))

\* what the duration of an elapsed time el >= 0 has to show
Expected(el) ==
    LET d == el \div DayLen
        h == (el % DayLen) \div 3600
        mi == (el % 3600) \div 60
        s == el % 60
    IN IF d = 0 /\ h = 0 /\ mi = 0 THEN << <<s, "s">> >>
       ELSE NonZero(<< <<d, "d">>, <<h, "h">>, <<mi, "m">> >>)

\* C15: the duration of an elapsed time of el >= 0 whole seconds shows the
\* non-zero ones of days, hours and minutes, in this order, and the seconds
\* exactly when the three are zero; 0s is "0s", 45s "45s", 125s "2m",
\* 2h5m "2h 5m" and 1d0h3m "1d 3m".
C15_DurationFormat ==
    (display # <<>> /\ DOMAIN usersOn # {}) =>
        \A i \in DOMAIN Entries(display) :
            LET e == Entries(display)[i]
                since == usersOn[e[1].s].since
                el == now - since
                dur == SubSeq(e, 3, Len(e))
            IN (since # ZeroTime /\ el >= 0) =>
                  /\ Shown(dur) = Expected(el)
                  /\ el = 0 => dur = <<Num(0, "s")>>
                  /\ el = 45 => dur = <<Num(45, "s")>>
                  /\ el = 125 => dur = <<Num(2, "m")>>
                  /\ el = 7500 => dur = <<Num(2, "h "), Num(5, "m")>>
                  /\ el = DayLen + 180 => dur = <<Num(1, "d "), Num(3, "m")>>

\* a user online for 1d0h3m is shown as "1d 3m"
C15_Witness ==
    /\ display # <<>> /\ DOMAIN usersOn # {}
    /\ \E i \in DOMAIN Entries(display) :
          LET e == Entries(display)[i] IN
          /\ now - usersOn[e[1].s].since = DayLen + 180
          /\ SubSeq(e, 3, Len(e)) = <<Num(1, "d "), Num(3, "m")>>

\* the instant at which the local clock shows date and tod
LocalInstant(date, tod) == date * DayLen + tod - UTCOffset(ZoneOn(date))

\* C16: a valid login (logout) line of a source whose log date is D yields
\* exactly one Login (Logout) event with the line's user name and the
\* instant D + time of day in local time: every event extracted from a line
\* with a valid time of day carries that instant, and an archive read to its
\* end has given one event for each of its login and logout lines, of the
\* line's kind and name.
C16_EventAtLocalInstant ==
    /\ \A i \in DOMAIN extracted :
          (extracted[i].tod >= 0 /\ extracted[i].tod < DayLen)
              => extracted[i].user.since
                    = LocalInstant(extracted[i].date, extracted[i].tod)
    /\ \A k \in DOMAIN opened :
          LET a == opened[k].file
              c == ArchiveContent(a)
          IN opened[k].upto = Len(c) =>
                \A s \in EventLines(c) :
                    /\ Cardinality({ i \in ExtractedFrom(a) : extracted[i].off = s + 2 }) = 1
                    /\ \A i \in ExtractedFrom(a) :
                          extracted[i].off = s + 2 =>
                              /\ extracted[i].kind = c[s + 1].u
                              /\ extracted[i].user.name = c[s].name
                              /\ extracted[i].date = a.date
                              /\ extracted[i].tod = c[s].tod

\* the events extracted so far, as kind and user
EventsOf(ex) == [i \in DOMAIN ex |-> [kind |-> ex[i].kind, user |-> ex[i].user]]

C18_LogDate ==
    \A i \in DOMAIN extracted :
        extracted[i].date
            = (IF extracted[i].src.gz THEN extracted[i].src.date ELSE Today)

\* C19: after latest.log was replaced by a new, empty file, every login or
\* logout line of the new file is emitted, whatever size the file had at
\* the next pass: once Mcwho has read to the end and waits with nothing
\* pending, each complete login or logout line of the file has given an
\* event since the replacement.  (The file was replaced once, no pass since
\* was cut short, and the last pass ended at the end of the file.)
C19_RotatedFileFullyRead ==
    ( /\ pc = "wait" /\ ~evPending /\ mainpc = "select" /\ wpend = <<>>
      /\ pos = Len(liveFile)
      /\ ntrunc = 1 /\ ~cut )
    => \A s \in EventLines(liveFile) :
          \E i \in ExtractedFrom(Latest) :
              extracted[i].gen = ntrunc /\ extracted[i].off = s + 2

\* C20: pos changes only in a pass over latest.log: when the pass opens the
\* file and finds it shorter than pos (pos becomes 0), and when the pass
\* returns, pos becoming the position the reader has reached, which is the
\* end of the stream where the loop stopped.  A pass that ends in an error
\* (os.Open or the Stat of getLogReader failed) leaves pos as it was, and a
\* pass that finds the file no shorter than pos starts to read at pos, so
\* that it reads what was appended after the position stored.
C20_OffsetOnlyInLivePass ==
    [][ ~exited' =>
        /\ pos' # pos =>
              \/ /\ rd.active /\ ~rd.src.gz /\ rd.err /\ ~rd'.active
                 /\ pos' = rd.off
              \/ /\ ~rd.active /\ rd'.active /\ ~rd'.src.gz
                 /\ Len(liveFile) < pos /\ pos' = 0
        /\ Len(errch') > Len(errch) => pos' = pos
        /\ (rd.active /\ ~rd.src.gz /\ ~rd'.active) => pos' = rd.off
        /\ (rd.active /\ ~rd.src.gz /\ ~rd.err /\ rd'.err) => rd'.off >= Len(liveFile)
        /\ (~rd.active /\ rd'.active /\ ~rd'.src.gz /\ Len(liveFile) >= pos)
              => pos' = pos /\ rd'.off = pos ]_vars

\* a second pass over latest.log, started at the position the first pass
\* stored, has read the bytes appended since, up to the end of the file
C20_Witness ==
    /\ rd.active /\ ~rd.src.gz /\ rd.err
    /\ rd.was > 0 /\ rd.size > rd.was /\ rd.start = rd.was
    /\ rd.off = Len(liveFile) /\ rd.off > rd.start
    /\ Cardinality(ExtractedFrom(Latest)) = 2

\* C21: reading an archive neither uses nor changes pos: pos is 0 until
\* latest.log is first opened, a step taken while an archive is being read
\* leaves pos as it is, and the first pass over latest.log finds pos = 0 and
\* starts to read at offset 0.
C21_ArchivesLeaveOffset ==
    [][ ~exited' =>
        /\ ~liveStarted => pos = 0
        /\ (rd.active /\ rd.src.gz) => pos' = pos
        /\ (~rd.active /\ rd'.active /\ rd'.src.gz) => rd'.off = 0 /\ rd'.start = 0
        /\ (~liveStarted /\ liveStarted') =>
              /\ rd'.active /\ ~rd'.src.gz
              /\ rd'.was = 0 /\ rd'.start = 0 /\ rd'.off = 0 /\ pos' = 0 ]_vars

\* three archives were read to their ends, then the pass over latest.log
\* found content written before the watcher was set up, started at offset 0
\* with pos = 0 and has read the first line
C21_Witness ==
    /\ Len(opened) = 3
    /\ \A i \in DOMAIN opened : opened[i].upto = Len(ArchiveContent(opened[i].file))
    /\ rd.active /\ ~rd.src.gz /\ rd.was = 0 /\ rd.start = 0 /\ pos = 0
    /\ rd.size > 0 /\ rd.off = rd.size
    /\ ExtractedFrom(Latest) # {} /\ extracted[Min(ExtractedFrom(Latest))].off = 3

\* the events main has received: those applied and the one of the case
\* main is in
Delivered ==
    applied \o
    (IF mainpc \in {"conchDelete", "conchPut"} THEN <<[kind |-> "login", user |-> mainUser]>>
     ELSE IF mainpc \in {"dischDelete", "dischPut"} THEN <<[kind |-> "logout", user |-> mainUser]>>
     ELSE <<>>)

\* the two tables after the events evs have been applied in full to the
\* tables on and off
RECURSIVE ApplyAll(_, _, _)
ApplyAll(evs, on, off) ==
    IF Len(evs) = 0 THEN <<on, off>>
    ELSE IF evs[1].kind = "login"
    THEN ApplyAll(Tail(evs), Put(on, evs[1].user.name, evs[1].user),
                  Delete(off, evs[1].user.name))
    ELSE ApplyAll(Tail(evs), Delete(on, evs[1].user.name),
                  Put(off, evs[1].user.name, evs[1].user))

\* C22: a render that runs next to the consumer sees tables that are the
\* result of applying in full some prefix of the events delivered to main;
\* a user for whom an event was applied is never missing from both tables
\* in what the render sees.
C22_RenderSeesPrefix ==
    [][ rssServer =>
        /\ \E k \in 0..Len(Delivered) :
              ApplyAll(SubSeq(Delivered, 1, k), EmptyList, EmptyList)
                  = <<usersOn, usersOff>>
        /\ \A i \in DOMAIN applied :
              applied[i].user.name \in DOMAIN usersOn \cup DOMAIN usersOff ]_vars

\* C23: when Mcwho has returned and closed conch, main is in log.Fatal and
\* the process goes on to exit; main is never in its select with conch
\* closed, so it never receives the zero mcuser from the closed channel,
\* and no event with an empty user name is applied to the tables.
C23_ClosedConchNeverReceived ==
    /\ [](/\ pc = "done" => conchClosed
          /\ conchClosed => mainpc = "fatal"
          /\ \A i \in DOMAIN applied : applied[i].user.name # ""
          /\ "" \notin DOMAIN usersOn \cup DOMAIN usersOff)
    /\ (conchClosed ~> exited)

\* Mcwho could not open the second archive after the events of the first
\* were applied, sent the error, returned and closed conch; main is on its
\* way to os.Exit
C23_Witness ==
    /\ pc = "done" /\ conchClosed /\ ~exited /\ mainpc = "fatal"
    /\ Len(opened) = 1 /\ Len(applied) = 2

\* the login and logout lines of the first version's log c, by their start
\* offsets
FirstEventLines(c) ==
    { i \in LineStarts(c) :
        /\ i + 2 <= Len(c)
        /\ c[i].u = "lhead" /\ c[i + 1].u \in {"login", "logout"} /\ c[i + 2].u = "nl" }

\* the users whose last login or logout line in c is a login line
LastLineIsLogin(c) ==
    { n \in Users :
        LET ev == { i \in FirstEventLines(c) : c[i].name = n }
        IN ev # {} /\ c[Max(ev) + 1].u = "login" }

\* C24: in the first version, after any sequence of read passes over a log
\* that never shrinks, the users table holds exactly the users whose last
\* login or logout line in the log is a login: once Mcwho has read to the
\* end of the log and waits, nothing pending and nothing in a channel, the
\* keys of users are these users.
C24_FirstUsersAreLastLogins ==
    ( /\ pc = "wait" /\ ~evPending /\ mainpc = "select"
      /\ conch = <<>> /\ disch = <<>> /\ pos = Len(liveFile) )
    => DOMAIN usersOn = LastLineIsLogin(liveFile)

\* C25: the duration of an elapsed time el >= 0 is its units separated by
\* single blanks, with no blank before the first or after the last: every
\* piece but the last ends in one blank and the last in none; 2d 3h 0m is
\* "2d 3h" and 2h 0m is "2h".
C25_DurationNoTrailingSpace ==
    (display # <<>> /\ DOMAIN usersOn # {}) =>
        \A i \in DOMAIN Entries(display) :
            LET e == Entries(display)[i]
                since == usersOn[e[1].s].since
                el == now - since
                dur == SubSeq(e, 3, Len(e))
            IN (since # ZeroTime /\ el >= 0) =>
                  /\ Len(dur) >= 1
                  /\ dur[Len(dur)].s \in {"d", "h", "m", "s"}
                  /\ \A k \in 1..(Len(dur) - 1) : dur[k].s \in {"d ", "h ", "m ", "s "}
                  /\ el = 2 * DayLen + 3 * 3600 => dur = <<Num(2, "d "), Num(3, "h")>>
                  /\ el = 2 * 3600 => dur = <<Num(2, "h")>>

====
